---- MODULE Spec2Model ----
(***************************************************************************)
(* Model of src/src/index.tsx: makeKCDWorkshopApp, its history listener    *)
(* handleLocationChange, the isolated renderer, the application renderer,  *)
(* render()/unmount and moduleWithDefaultExport.                           *)
(*                                                                         *)
(* Strings whose characters the code inspects (pathnames, file paths,      *)
(* class names) are sequences of one-character strings.  Strings that are  *)
(* only concatenated (titles, file names) are sequences of tokens; the     *)
(* empty string is << >> in both cases.                                    *)
(***************************************************************************)
EXTENDS Integers, Sequences, FiniteSets, TLC

(***************************************************************************)
(* Bounds                                                                  *)
(***************************************************************************)
\* navigation events delivered after the initial load
MaxNav == 2
\* script elements in an isolated HTML document
MaxScripts == 3
\* navigation events delivered after the initial load while replays are studied
MaxReplayNav == 1

(***************************************************************************)
(* String helpers                                                          *)
(***************************************************************************)
Digits == <<"0", "1", "2", "3", "4", "5", "6", "7", "8", "9">>

\* String.prototype.startsWith
StartsWith(s, p) == Len(s) >= Len(p) /\ SubSeq(s, 1, Len(p)) = p

\* String.prototype.endsWith
EndsWith(s, p) == Len(s) >= Len(p) /\ SubSeq(s, Len(s) - Len(p) + 1, Len(s)) = p

\* index of the first occurrence of p in s, 0 when there is none
IndexOf(s, p) ==
  LET hits == {i \in 1..(Len(s) - Len(p) + 1) : SubSeq(s, i, i + Len(p) - 1) = p}
  IN  IF hits = {} THEN 0 ELSE CHOOSE i \in hits : \A j \in hits : i <= j

\* String.prototype.replace(p, r) with a string pattern: first occurrence only
ReplaceFirst(s, p, r) ==
  LET i == IndexOf(s, p)
  IN  IF i = 0 THEN s
      ELSE SubSeq(s, 1, i - 1) \o r \o SubSeq(s, i + Len(p), Len(s))

\* name.replace(/\//g, '_')
ReplaceSlashes(s) == [i \in 1..Len(s) |-> IF s[i] = "/" THEN "_" ELSE s[i]]

\* the characters encodeURIComponent leaves alone, among those the model uses
Unreserved == {"_", ".", "-", "a", "b", "d", "e", "h", "i", "j", "l", "m",
               "o", "r", "s", "t", "x", "y", "c",
               "0", "1", "2", "3", "4", "5", "6", "7", "8", "9"}

\* percent-encoding of one character outside Unreserved
Escape(c) ==
  CASE c = " " -> <<"%", "2", "0">>
    [] c = "/" -> <<"%", "2", "F">>
    [] c = "%" -> <<"%", "2", "5">>
    [] OTHER   -> <<"%", "3", "F">>

RECURSIVE encodeURIComponent(_)
encodeURIComponent(s) ==
  IF s = << >> THEN << >>
  ELSE (IF Head(s) \in Unreserved THEN <<Head(s)>> ELSE Escape(Head(s)))
         \o encodeURIComponent(Tail(s))

\* src/src/index.tsx:105-108
escapeForClassList(name) == encodeURIComponent(ReplaceSlashes(name))

\* pathname.split('/').slice(-1)[0]: the characters after the last '/'
LastSegment(s) ==
  LET slashes == {i \in 1..Len(s) : s[i] = "/"}
      last    == IF slashes = {} THEN 0
                 ELSE CHOOSE i \in slashes : \A j \in slashes : j <= i
  IN  SubSeq(s, last + 1, Len(s))

NaN == -2
Undefined == -1

DigitValue(c) == (CHOOSE i \in 1..10 : Digits[i] = c) - 1
IsDigit(c) == \E i \in 1..10 : Digits[i] = c

RECURSIVE DecimalValue(_)
DecimalValue(s) ==
  IF s = << >> THEN 0
  ELSE 10 * DecimalValue(SubSeq(s, 1, Len(s) - 1)) + DigitValue(s[Len(s)])

\* Number(str) for the strings the model produces: '' is 0, a run of decimal
\* digits is its value, anything else is NaN
Number(s) ==
  IF \A i \in 1..Len(s) : IsDigit(s[i]) THEN DecimalValue(s) ELSE NaN

\* `${n}` for a non-negative integer
RECURSIVE NumberChars(_)
NumberChars(n) ==
  IF n < 10 THEN <<Digits[n + 1]>>
  ELSE NumberChars(n \div 10) \o <<Digits[(n % 10) + 1]>>

\* JavaScript truthiness of a number field that may be absent
Truthy(n) == n \notin {0, NaN, Undefined}

(***************************************************************************)
(* The manifest, the import map's key universe and the routes              *)
(***************************************************************************)
SRC == <<"s", "r", "c">>
ISOLATED == <<"/", "i", "s", "o", "l", "a", "t", "e", "d">>

File0md   == SRC \o <<"/", "0", ".", "m", "d">>
File1md   == SRC \o <<"/", "1", ".", "m", "d">>
FileAjs   == SRC \o <<"/", "a", ".", "j", "s">>
FileBhtml == SRC \o <<"/", "b", ".", "h", "t", "m", "l">>
FileCcss  == SRC \o <<"/", "c", ".", "c", "s", "s">>

\* Array<FileInfo>, in manifest order
filesInfo ==
  << [ext |-> ".md", filePath |-> File0md, type |-> "instruction",
      number |-> 0, title |-> <<"Welcome">>, filename |-> <<"0.md">>],
     [ext |-> ".md", filePath |-> File1md, type |-> "instruction",
      number |-> 1, title |-> << >>, filename |-> <<"1.md">>],
     [ext |-> ".js", filePath |-> FileAjs, type |-> "final",
      number |-> 1, title |-> <<"Counter">>, filename |-> <<"a.js">>],
     [ext |-> ".html", filePath |-> FileBhtml, type |-> "final",
      number |-> Undefined, title |-> << >>, filename |-> <<"b.html">>],
     [ext |-> ".css", filePath |-> FileCcss, type |-> "final",
      number |-> Undefined, title |-> << >>, filename |-> <<"c.css">>] >>

projectTitle == <<"Workshop">>

AllFilePaths == {filesInfo[i].filePath : i \in 1..Len(filesInfo)}

\* the pathnames a navigation may carry
Path0        == <<"/", "0">>
Path1        == <<"/", "1">>
Path7        == <<"/", "7">>
PathAjs      == ISOLATED \o <<"/", "a", ".", "j", "s">>
PathBhtml    == ISOLATED \o <<"/", "b", ".", "h", "t", "m", "l">>
PathMissing  == ISOLATED \o <<"/", "x", " ", "y">>
Paths == {Path0, Path1, Path7, PathAjs, PathBhtml, PathMissing}

(***************************************************************************)
(* State                                                                   *)
(***************************************************************************)
VARIABLES
  pc,                 \* "init", "running" (makeKCDWorkshopApp returned or its
                      \* first pass raised after listen) or "crashed"
  imports,            \* the file paths that have an entry in the import map
  htmlFile,           \* the script elements of src/b.html, in document order
  lazyComponents,     \* the registry: file path -> lazy component
  listening,          \* history.listen(handleLocationChange) has been called
  location,           \* history.location; key is the object's identity
  previousLocation,
  previousIsIsolated, \* "null", "true" or "false"
  docEl,              \* the live document.documentElement: 0 is the original,
                      \* n the document parsed for the load of location n
  body,               \* document id -> body of that document
  unmount,            \* the root the stored unmount callback closes over, 0
                      \* when the callback is undefined
  mounted,            \* the roots created by render() and still mounted
  alerts,             \* window.alert calls made by render()
  title,              \* document.title
  timers,             \* pending setTimeout(..., 20) callbacks, oldest first
  loads,              \* location key -> the promise of the module load that
                      \* renderIsolated started for it, and what its callback did
  replays,            \* document id -> progress of its script replay
  navs,               \* navigation events delivered so far
  lastPass            \* what the most recent handling pass did

vars == <<pc, imports, htmlFile, lazyComponents, listening, location, previousLocation,
          previousIsIsolated, docEl, body, unmount, mounted, alerts, title,
          timers, loads, replays, navs, lastPass>>

OriginalDocument == 0

\* the <title> of index.html
IndexHtmlTitle == <<"React App">>

NoPass ==
  [nav |-> 0, notFound |-> FALSE, threw |-> FALSE, renderer |-> "none",
   titled |-> [nav |-> 0, pathname |-> << >>]]

BoolStr(b) == IF b THEN "true" ELSE "false"

(***************************************************************************)
(* moduleWithDefaultExport, src/src/index.tsx:285-307                      *)
(***************************************************************************)
HTML == <<"h", "t", "m", "l">>

\* lines 289-290 without the check: a missing entry is returned as a loader
moduleWithDefaultExport_NoCheck(imps, filePath) ==
  IF EndsWith(filePath, <<"h", "t", "m", "l">>)
  THEN [throws |-> FALSE, kind |-> "importFn", filePath |-> filePath]
  ELSE [throws |-> FALSE, kind |-> "importJS", filePath |-> filePath]

\* the value of the call: an exception, the raw import function, or importJS
moduleWithDefaultExport(imps, filePath) ==
  IF filePath \notin imps THEN [throws |-> TRUE, kind |-> "none", filePath |-> filePath]
  ELSE IF EndsWith(filePath, HTML)
       THEN [throws |-> FALSE, kind |-> "importFn", filePath |-> filePath]
       ELSE [throws |-> FALSE, kind |-> "importJS", filePath |-> filePath]

DO_NOT_RENDER == [type |-> "function", name |-> "DO_NOT_RENDER"]

\* line 299 with the first two operands swapped: module.default ?? module.App
DefaultExportOf_DefaultFirst(module) ==
  IF module.default # "undefined" THEN [type |-> "function", name |-> "default"]
  ELSE IF module.App # "undefined" THEN [type |-> "function", name |-> "App"]
  ELSE DO_NOT_RENDER

\* module.App ?? module.default ?? DO_NOT_RENDER
DefaultExportOf(module) ==
  IF module.App # "undefined" THEN [type |-> "function", name |-> "App"]
  ELSE IF module.default # "undefined" THEN [type |-> "function", name |-> "default"]
  ELSE DO_NOT_RENDER

\* how the promise returned by the loader settles, given how the promise
\* of the underlying import function settles
InvokeLoader(loader, outcome) ==
  IF loader.kind = "importFn" THEN outcome
  ELSE IF outcome.fulfilled
       THEN [fulfilled |-> TRUE, module |-> [default |-> DefaultExportOf(outcome.module)]]
       ELSE [fulfilled |-> TRUE,
             module |-> [default |-> [type |-> "function", name |-> "fallback"]]]

\* the modules a JavaScript import may resolve to, by what they export
JsModules ==
  {[App |-> "component", default |-> "component"],
   [App |-> "undefined", default |-> "component"],
   [App |-> "undefined", default |-> "undefined"]}

RECURSIVE SeqsUpTo(_, _)
SeqsUpTo(S, n) ==
  IF n = 0 THEN {<< >>}
  ELSE LET shorter == SeqsUpTo(S, n - 1)
       IN  shorter \cup {Append(q, x) : q \in shorter, x \in S}

\* every arrangement of external ("src") and inline script elements
ScriptArrangements == SeqsUpTo({"src", "inline"}, MaxScripts)

\* one external script followed by one inline script
OneExternalOneInline == <<"src", "inline">>

\* the module an HTML import resolves to: a string, of which the model
\* keeps the script elements in document order
HtmlModule(scripts) ==
  [default |-> [type |-> "string", scripts |-> scripts, hasRoot |-> TRUE]]

\* the ways the promise of imports[filePath]() may settle
ImportOutcomes(filePath) ==
  {[fulfilled |-> FALSE, module |-> [default |-> [type |-> "error"]]]}
    \cup {[fulfilled |-> TRUE, module |-> m] :
            m \in IF EndsWith(filePath, HTML) THEN {HtmlModule(htmlFile)} ELSE JsModules}

(***************************************************************************)
(* makeKCDWorkshopApp: the registry, src/src/index.tsx:55-65               *)
(***************************************************************************)
\* line 57 with '.html' among the component extensions
componentExtensions_WithHtml == {".js", ".md", ".mdx", ".tsx", ".ts", ".html"}

componentExtensions == {".js", ".md", ".mdx", ".tsx", ".ts"}

\* the for loop over the first n manifest entries: the registry built so
\* far and whether moduleWithDefaultExport raised
RECURSIVE BuildRegistry(_, _)
BuildRegistry(imps, n) ==
  IF n = 0 THEN [threw |-> FALSE, registry |-> << >>]
  ELSE LET before == BuildRegistry(imps, n - 1)
           f      == filesInfo[n]
           loader == moduleWithDefaultExport(imps, f.filePath)
       IN  IF before.threw THEN before
           ELSE IF f.ext \notin componentExtensions THEN before
           ELSE IF loader.throws THEN [threw |-> TRUE, registry |-> before.registry]
           ELSE [threw |-> FALSE,
                 registry |-> [k \in DOMAIN before.registry \cup {f.filePath} |->
                                IF k = f.filePath THEN loader ELSE before.registry[k]]]

(***************************************************************************)
(* render() and the stored unmount callback, src/src/index.tsx:36,89-103   *)
(***************************************************************************)
\* line 92 left out: the previous root stays mounted
AfterUnmount_Skipped(roots, um) == roots

\* unmount?.(rootEl): the callback unmounts the root it closes over
AfterUnmount(roots, um) == {r \in roots : r.id # um}

\* lines 92-96 without the return: the alert is followed by createRoot
render_NoReturn(ui, nav, doc, hasRootEl, st) ==
  [mounted |-> (IF hasRootEl THEN AfterUnmount(st.mounted, st.unmount)
                ELSE st.mounted)
                 \cup {[id |-> nav, ui |-> ui, doc |-> doc]},
   unmount |-> nav,
   alerts  |-> IF hasRootEl THEN st.alerts ELSE st.alerts + 1]

\* st is [mounted, unmount, alerts]; hasRootEl is whether
\* document.getElementById('root') finds an element in the live document.
\* The root created by the render that location nav caused is root nav.
render(ui, nav, doc, hasRootEl, st) ==
  IF hasRootEl
  THEN [mounted |-> AfterUnmount(st.mounted, st.unmount)
                      \cup {[id |-> nav, ui |-> ui, doc |-> doc]},
        unmount |-> nav,
        alerts  |-> st.alerts]
  ELSE [st EXCEPT !.alerts = @ + 1]

(***************************************************************************)
(* handleLocationChange, src/src/index.tsx:110-183                         *)
(***************************************************************************)
\* lines 114-123
UpdateClassList(classList, prevPathname, pathname) ==
  LET prevClassName == escapeForClassList(prevPathname)
      newClassName  == escapeForClassList(pathname)
      removed == IF prevClassName \in classList
                 THEN classList \ {escapeForClassList(prevPathname)}
                 ELSE classList
  IN  IF newClassName \notin removed
      THEN removed \cup {escapeForClassList(pathname)}
      ELSE removed

\* line 126
IsIsolatedPath(pathname) == StartsWith(pathname, ISOLATED)

\* Array.prototype.find over the indices that match: the first one, 0 for
\* undefined
Find(hits) ==
  IF hits = {} THEN 0 ELSE CHOOSE i \in hits : \A j \in hits : i <= j

\* lines 127-136
FindInfo(pathname) ==
  IF IsIsolatedPath(pathname)
  THEN LET filePath == ReplaceFirst(pathname, ISOLATED, SRC)
       IN  Find({i \in 1..Len(filesInfo) : filesInfo[i].filePath = filePath})
  ELSE LET number == Number(LastSegment(pathname))
       IN  Find({i \in 1..Len(filesInfo) :
                   filesInfo[i].type = "instruction" /\ filesInfo[i].number = number})

\* [a, b].join('') of the number prefix and the name, lines 157-160
InfoLabel(f) ==
  (IF Truthy(f.number) THEN NumberChars(f.number) \o <<". ">> ELSE << >>)
    \o (IF f.title # << >> THEN f.title ELSE f.filename)

\* lines 155-165; info is an index into filesInfo, 0 for undefined
TitleFor(info) ==
  LET label == IF info # 0 THEN InfoLabel(filesInfo[info]) ELSE << >>
  IN  IF label # << >> /\ projectTitle # << >> THEN label \o <<" | ">> \o projectTitle
      ELSE label \o projectTitle

\* the condition of line 138 written as !isIsolated && !info
IsNotFound_ShellOnly(isIsolated, info) == ~isIsolated /\ info = 0

\* lines 259-261: the original document element is put back if it had been
\* replaced; the isolated document is dropped with its body
RestoredDocument(bodies) == [d \in {OriginalDocument} |-> bodies[OriginalDocument]]

\* renderReactApp of ./react-app: the shell mounts itself through the render
\* callback it is given
renderReactApp(nav, hasRootEl, st) ==
  render("shell", nav, OriginalDocument, hasRootEl, st)

\* line 138: isIsolated && !info
IsNotFound(isIsolated, info) == isIsolated /\ info = 0

\* the promise returned by isolatedModuleImport(), line 186, before it settles
NewLoad(loader) ==
  [loader |-> loader, state |-> "pending", value |-> [type |-> "none"],
   effect |-> "none",
   imported |-> [fulfilled |-> FALSE, module |-> [default |-> [type |-> "pending"]]]]

\* line 176 with the test dropped: every Shell pass renders the shell anew
NeedsReact_Always(prevIsIsolated, isIsolated) == TRUE

\* line 176 testing for a pass out of the Isolated state only
NeedsReact_OnlyFromIsolated(prevIsIsolated, isIsolated) ==
  prevIsIsolated = "true" /\ ~isIsolated

\* line 176: previousIsIsolated !== isIsolated
NeedsReact(prevIsIsolated, isIsolated) == prevIsIsolated # BoolStr(isIsolated)

\* lines 181-182 with the flag taken from the path recorded before
RecordPrevious_OldFlag(loc, isIsolated) ==
  [location |-> loc,
   isIsolated |-> BoolStr(IsIsolatedPath(previousLocation.pathname))]

\* lines 181-182: the pair a completed pass records
RecordPrevious(loc, isIsolated) ==
  [location |-> loc, isIsolated |-> BoolStr(isIsolated)]

handleLocationChange(loc) ==
  LET pathname   == loc.pathname
      classList  == UpdateClassList(body[docEl].classList,
                                    previousLocation.pathname, pathname)
      body1      == [body EXCEPT ![docEl].classList = classList]
      isIsolated == IsIsolatedPath(pathname)
      info       == FindInfo(pathname)
      loader     == moduleWithDefaultExport(imports, filesInfo[info].filePath)
      st         == [mounted |-> mounted, unmount |-> unmount, alerts |-> alerts]
      titled     == [nav |-> loc.key, pathname |-> pathname]
      recorded   == RecordPrevious(loc, isIsolated)
  IN  IF IsNotFound(isIsolated, info)
      THEN \* lines 138-149
           /\ body' = [body1 EXCEPT ![docEl].hasRoot = FALSE,
                                    ![docEl].placeholder = TRUE]
           /\ lastPass' = [nav |-> loc.key, notFound |-> TRUE, threw |-> FALSE,
                           renderer |-> "none", titled |-> lastPass.titled]
           /\ UNCHANGED <<previousLocation, previousIsIsolated, docEl, unmount,
                          mounted, alerts, timers, loads>>
      ELSE /\ timers' = Append(timers, [nav |-> loc.key, pathname |-> pathname,
                                        info |-> info])
           /\ IF isIsolated /\ info # 0
              THEN IF loader.throws
                   THEN \* line 290 raised out of line 175
                        /\ body' = body1
                        /\ lastPass' = [nav |-> loc.key, notFound |-> FALSE,
                                        threw |-> TRUE, renderer |-> "none",
                                        titled |-> titled]
                        /\ UNCHANGED <<previousLocation, previousIsIsolated,
                                       docEl, unmount, mounted, alerts, loads>>
                   ELSE \* renderIsolated calls the loader at once, line 186
                        /\ body' = body1
                        /\ loads' = [n \in DOMAIN loads \cup {loc.key} |->
                                       IF n = loc.key THEN NewLoad(loader) ELSE loads[n]]
                        /\ lastPass' = [nav |-> loc.key, notFound |-> FALSE,
                                        threw |-> FALSE, renderer |-> "isolated",
                                        titled |-> titled]
                        /\ previousLocation' = recorded.location
                        /\ previousIsIsolated' = recorded.isIsolated
                        /\ UNCHANGED <<docEl, unmount, mounted, alerts>>
              ELSE IF NeedsReact(previousIsIsolated, isIsolated)
                   THEN \* renderReact, lines 258-270
                        LET restored == RestoredDocument(body1)
                            after == renderReactApp(loc.key,
                                       restored[OriginalDocument].hasRoot, st)
                        IN  /\ docEl' = OriginalDocument
                            /\ body' = restored
                            /\ mounted' = after.mounted
                            /\ unmount' = after.unmount
                            /\ alerts' = after.alerts
                            /\ lastPass' = [nav |-> loc.key, notFound |-> FALSE,
                                            threw |-> FALSE, renderer |-> "react",
                                            titled |-> titled]
                            /\ previousLocation' = recorded.location
                            /\ previousIsIsolated' = recorded.isIsolated
                            /\ UNCHANGED loads
                   ELSE /\ body' = body1
                        /\ lastPass' = [nav |-> loc.key, notFound |-> FALSE,
                                        threw |-> FALSE, renderer |-> "none",
                                        titled |-> titled]
                        /\ previousLocation' = recorded.location
                        /\ previousIsIsolated' = recorded.isIsolated
                        /\ UNCHANGED <<docEl, unmount, mounted, alerts, loads>>

(***************************************************************************)
(* renderIsolated, src/src/index.tsx:185-256                               *)
(***************************************************************************)
\* line 187
IsStale(historyLocation, prevLocation) == historyLocation # prevLocation

\* the external scripts re-created so far: loadingScriptsQueue
LoadingScriptsQueue(r) == {k \in 1..(r.i - 1) : r.scripts[k] = "src"}

\* lines 216-219 without the await: every script is re-created at once
MayRecreate_NoAwait(r) == TRUE

\* lines 216-219: may the loop go on to re-create script r.i ?
MayRecreate(r) ==
  r.scripts[r.i] = "src" \/ LoadingScriptsQueue(r) \subseteq r.loaded

\* lines 213-251, run until the next await that has to wait.  A re-created
\* script is fetched or executed only when it is inserted into the live
\* document (connected).
RECURSIVE RunReplay(_, _)
RunReplay(r, connected) ==
  IF r.i > Len(r.scripts)
  THEN IF LoadingScriptsQueue(r) \subseteq r.loaded
       THEN [r EXCEPT !.state = "done"]
       ELSE [r EXCEPT !.state = "awaitAll"]
  ELSE IF ~MayRecreate(r)
       THEN [r EXCEPT !.state = "awaitInline"]
       ELSE RunReplay([r EXCEPT !.created = Append(@, r.i),
                                !.ran = IF connected THEN @ \cup {r.i} ELSE @,
                                !.i = @ + 1],
                      connected)

NewReplay(scripts) ==
  [scripts |-> scripts, i |-> 1, created |-> << >>, ran |-> {}, loaded |-> {},
   state |-> "running"]

Connected(d) == docEl = d /\ ~body[d].placeholder

\* lines 193-198 without the test of line 194: every function is rendered
CallbackEffect_NoSentinel(defaultExport) ==
  IF IsStale(location, previousLocation) THEN "stale"
  ELSE IF defaultExport.type = "function"
       THEN IF body[docEl].hasRoot THEN "mounted" ELSE "alerted"
       ELSE IF defaultExport.type = "string" THEN "replaced"
       ELSE "ignored"

\* what the callback of line 186 does with the resolved default export
CallbackEffect(defaultExport) ==
  IF IsStale(location, previousLocation) THEN "stale"
  ELSE IF defaultExport.type = "function"
       THEN IF defaultExport = DO_NOT_RENDER THEN "noop"
            ELSE IF body[docEl].hasRoot THEN "mounted" ELSE "alerted"
       ELSE IF defaultExport.type = "string" THEN "replaced"
       ELSE "ignored"

\* the callback of line 186 for the load that location nav started
renderIsolatedCallback(nav, defaultExport) ==
  LET st     == [mounted |-> mounted, unmount |-> unmount, alerts |-> alerts]
      effect == CallbackEffect(defaultExport)
  IN  IF effect \in {"mounted", "alerted"}
      THEN LET after == render(defaultExport.name, nav, docEl,
                               body[docEl].hasRoot, st)
           IN  /\ mounted' = after.mounted
               /\ unmount' = after.unmount
               /\ alerts' = after.alerts
               /\ UNCHANGED <<docEl, body, replays>>
      ELSE IF effect = "replaced"
      THEN \* lines 201-206, then the replay up to its first real wait
           /\ docEl' = nav
           /\ body' = [d \in {OriginalDocument, nav} |->
                         IF d = nav
                         THEN [classList |-> {}, hasRoot |-> defaultExport.hasRoot,
                               placeholder |-> FALSE]
                         ELSE body[OriginalDocument]]
           /\ replays' = [d \in DOMAIN replays \cup {nav} |->
                            IF d = nav
                            THEN RunReplay(NewReplay(defaultExport.scripts), TRUE)
                            ELSE replays[d]]
           /\ UNCHANGED <<mounted, unmount, alerts>>
      ELSE UNCHANGED <<docEl, body, mounted, unmount, alerts, replays>>

(***************************************************************************)
(* Initial state and actions                                               *)
(***************************************************************************)
Start ==
  /\ pc = "init"
  /\ lazyComponents = << >>
  /\ listening = FALSE
  /\ \E p \in Paths : location = [key |-> 1, pathname |-> p]
  /\ previousLocation = location
  /\ previousIsIsolated = "null"
  /\ docEl = OriginalDocument
  /\ body = [d \in {OriginalDocument} |->
               [classList |-> {}, hasRoot |-> TRUE, placeholder |-> FALSE]]
  /\ unmount = 0
  /\ mounted = {}
  /\ alerts = 0
  /\ title = IndexHtmlTitle
  /\ timers = << >>
  /\ loads = << >>
  /\ replays = << >>
  /\ navs = 0
  /\ lastPass = NoPass

Init ==
  /\ Start
  /\ imports \in {AllFilePaths, AllFilePaths \ {FileAjs}, AllFilePaths \ {FileBhtml}}
  /\ htmlFile = OneExternalOneInline

\* makeKCDWorkshopApp, lines 55-65 and 84-87, 272-274
makeKCDWorkshopApp ==
  /\ pc = "init"
  /\ LET built == BuildRegistry(imports, Len(filesInfo))
     IN  IF built.threw
         THEN /\ pc' = "crashed"
              /\ lazyComponents' = built.registry
              /\ UNCHANGED <<listening, previousLocation, previousIsIsolated,
                             docEl, body, unmount, mounted, alerts, timers,
                             loads, lastPass>>
         ELSE /\ pc' = "running"
              /\ lazyComponents' = built.registry
              /\ listening' = TRUE
              /\ handleLocationChange(location)
  /\ UNCHANGED <<imports, htmlFile, location, title, replays, navs>>

\* a listener that handles an event only once every replay has completed
CanNavigate_AfterReplays ==
  /\ pc = "running"
  /\ listening
  /\ navs < MaxNav
  /\ \A d \in DOMAIN replays : replays[d].state = "done"

\* history.listen(handleLocationChange), line 272: the listener is called
\* for every navigation event once it is registered
CanNavigate ==
  /\ pc = "running"
  /\ listening
  /\ navs < MaxNav

\* the browser delivers a navigation event: history.location becomes a new
\* location object and the listener runs
Navigate(p) ==
  /\ CanNavigate
  /\ navs' = navs + 1
  /\ location' = [key |-> location.key + 1, pathname |-> p]
  /\ handleLocationChange(location')
  /\ UNCHANGED <<pc, imports, htmlFile, lazyComponents, listening, title, replays>>

\* the timer queue running the callback scheduled last
RunTimer_Newest(ts) ==
  [run |-> ts[Len(ts)], rest |-> SubSeq(ts, 1, Len(ts) - 1)]

\* setTimeout(..., 20) of line 154: callbacks of equal delay run in the
\* order they were scheduled
RunTimer(ts) == [run |-> Head(ts), rest |-> Tail(ts)]

\* the next setTimeout callback of lines 154-172 runs
TitleTimer ==
  /\ timers # << >>
  /\ LET t == TitleFor(RunTimer(timers).run.info)
     IN  title' = IF title # t THEN t ELSE title
  /\ timers' = RunTimer(timers).rest
  /\ UNCHANGED <<pc, imports, htmlFile, lazyComponents, listening, location,
                 previousLocation, previousIsIsolated, docEl, body, unmount,
                 mounted, alerts, loads, replays, navs, lastPass>>

\* the promise of the import function called for location n settles with
\* outcome o, and with it the promise the loader returned
SettleLoad(n, o) ==
  /\ n \in DOMAIN loads
  /\ loads[n].state = "pending"
  /\ LET result == InvokeLoader(loads[n].loader, o)
     IN  IF result.fulfilled
         THEN /\ loads' = [loads EXCEPT ![n].state = "fulfilled",
                                        ![n].imported = o,
                                        ![n].value = result.module.default,
                                        ![n].effect = CallbackEffect(result.module.default)]
              /\ renderIsolatedCallback(n, result.module.default)
         ELSE \* no rejection handler: the callback never runs
              /\ loads' = [loads EXCEPT ![n].state = "rejected",
                                        ![n].imported = o]
              /\ UNCHANGED <<docEl, body, mounted, unmount, alerts, replays>>
  /\ UNCHANGED <<pc, imports, htmlFile, lazyComponents, listening, location,
                 previousLocation, previousIsIsolated, title, timers, navs,
                 lastPass>>

\* the load event of re-created external script k of document d fires, and
\* the replay goes on if that was what it waited for
LoadEvent(d, k) ==
  /\ d \in DOMAIN replays
  /\ k \in replays[d].ran
  /\ replays[d].scripts[k] = "src"
  /\ k \notin replays[d].loaded
  /\ LET r == [replays[d] EXCEPT !.loaded = @ \cup {k}]
     IN  replays' = [replays EXCEPT ![d] =
                       IF r.state = "done" THEN r ELSE RunReplay(r, Connected(d))]
  /\ UNCHANGED <<pc, imports, htmlFile, lazyComponents, listening, location,
                 previousLocation, previousIsIsolated, docEl, body, unmount,
                 mounted, alerts, title, timers, loads, navs, lastPass>>

Next ==
  \/ makeKCDWorkshopApp
  \/ \E p \in Paths : Navigate(p)
  \/ TitleTimer
  \/ \E n \in DOMAIN loads :
       \E o \in ImportOutcomes(loads[n].loader.filePath) : SettleLoad(n, o)
  \/ \E d \in DOMAIN replays : \E k \in 1..Len(replays[d].scripts) : LoadEvent(d, k)

Spec == Init /\ [][Next]_vars

(***************************************************************************)
(* Script replay under every arrangement of scripts: the routes are the    *)
(* isolated HTML file and one instruction, the import map is complete.     *)
(***************************************************************************)
ReplayPaths == {Path1, PathBhtml}

ReplayInit ==
  /\ Start
  /\ imports = AllFilePaths
  /\ htmlFile \in ScriptArrangements
  /\ location.pathname \in ReplayPaths

ReplayNext ==
  \/ makeKCDWorkshopApp
  \/ \E p \in ReplayPaths : navs < MaxReplayNav /\ Navigate(p)
  \/ TitleTimer
  \/ \E n \in DOMAIN loads :
       \E o \in ImportOutcomes(loads[n].loader.filePath) : SettleLoad(n, o)
  \/ \E d \in DOMAIN replays : \E k \in 1..Len(replays[d].scripts) : LoadEvent(d, k)

ReplaySpec == ReplayInit /\ [][ReplayNext]_vars

(***************************************************************************)
(* Properties                                                              *)
(***************************************************************************)
\* the steps in which handleLocationChange runs
PassRuns == lastPass'.nav # lastPass.nav

\* C1: when the module load of an isolated navigation settles after a later
\* navigation event has been handled, the first navigation's render effects
\* are not applied: nothing is mounted or unmounted, the document element is
\* not replaced and no scripts are replayed.
C1_StaleRenderDiscarded ==
  [][\A n \in DOMAIN loads :
       (loads[n].state = "pending" /\ loads'[n].state # "pending" /\ location.key > n)
         => /\ mounted' = mounted
            /\ unmount' = unmount
            /\ docEl' = docEl
            /\ body' = body
            /\ replays' = replays]_vars

\* C2: right after handleLocationChange has handled a navigation from path A
\* to path B whose escaped class names differ, the live body's class list
\* contains the class of B and not the class of A.
C2_BodyClassFollowsNavigation ==
  [][(location'.key # location.key
        /\ escapeForClassList(location'.pathname) # escapeForClassList(location.pathname))
       => /\ escapeForClassList(location'.pathname) \in body'[docEl'].classList
          /\ escapeForClassList(location.pathname) \notin body'[docEl'].classList]_vars

\* is there a FileInfo whose filePath is 'src' followed by what follows
\* '/isolated' in the pathname ?
HasFileFor(pathname) ==
  \E i \in 1..Len(filesInfo) :
    filesInfo[i].filePath = SRC \o SubSeq(pathname, Len(ISOLATED) + 1, Len(pathname))

\* C3: a handling pass for an Isolated path with no matching FileInfo puts
\* the not-found placeholder into the body and stops: no title update is
\* scheduled, no module load is started, no renderer runs (nothing is
\* mounted, unmounted, alerted or restored) and nothing is thrown.
C3_NotFoundPassStops ==
  [][(PassRuns /\ IsIsolatedPath(location'.pathname) /\ ~HasFileFor(location'.pathname))
       => /\ body'[docEl'].placeholder
          /\ timers' = timers
          /\ loads' = loads
          /\ mounted' = mounted
          /\ unmount' = unmount
          /\ alerts' = alerts
          /\ docEl' = docEl
          /\ lastPass'.renderer = "none"
          /\ ~lastPass'.threw
          /\ pc' = "running"]_vars

\* a not-found pass ran after a navigation, with a title update of an
\* earlier pass still pending or a root still mounted
C3_Witness ==
  /\ lastPass.notFound
  /\ lastPass.nav = location.key
  /\ lastPass.nav > 1
  /\ body[docEl].placeholder
  /\ mounted # {}

\* C4: in every replay the scripts are re-created in document order, and an
\* inline script is re-created only when the load event of every external
\* script before it has fired.
C4_InlineWaitsForExternal ==
  \A d \in DOMAIN replays :
    LET r == replays[d]
    IN  /\ r.created = [k \in 1..Len(r.created) |-> k]
        /\ \A j \in 1..Len(r.created) :
             r.scripts[r.created[j]] = "inline"
               => \A k \in 1..(r.created[j] - 1) :
                    r.scripts[k] = "src" => k \in r.loaded

\* a replay ran an inline script that follows two external scripts
C4_Witness ==
  \E d \in DOMAIN replays :
    LET r == replays[d]
    IN  /\ r.scripts = <<"src", "src", "inline">>
        /\ 3 \in r.ran
        /\ r.state = "done"

\* C5: once the registry is built its keys are exactly the file paths of the
\* manifest entries with a component extension, in every later state.
C5_RegistryKeys ==
  pc = "running"
    => DOMAIN lazyComponents =
         {filesInfo[i].filePath :
            i \in {j \in 1..Len(filesInfo) :
                     filesInfo[j].ext \in {".js", ".md", ".mdx", ".tsx", ".ts"}}}

\* the registry is in use after navigations and renders
C5_Witness ==
  /\ pc = "running"
  /\ navs = MaxNav
  /\ mounted # {}
  /\ DOMAIN lazyComponents # {}
  /\ \E n \in DOMAIN loads : loads[n].effect = "replaced"

\* the title the claim gives for the path /N
ExpectedTitle(N) ==
  LET instructions == {i \in 1..Len(filesInfo) :
                         filesInfo[i].type = "instruction" /\ filesInfo[i].number = N}
      f == filesInfo[CHOOSE i \in instructions : \A j \in instructions : i <= j]
  IN  IF instructions = {} THEN projectTitle
      ELSE NumberChars(N) \o <<". ">>
             \o (IF f.title # << >> THEN f.title ELSE f.filename)
             \o <<" | ">> \o projectTitle

\* C6: when the deferred title update of a pass for the path /N runs, the
\* document title becomes "N. <title or filename> | <projectTitle>" if an
\* instruction has number N and projectTitle otherwise, for every N.
C6_TitleOfNumberedPath ==
  [][\A N \in 0..9 :
       (timers # << >> /\ timers' = Tail(timers)
          /\ Head(timers).pathname = <<"/">> \o NumberChars(N))
         => title' = ExpectedTitle(N)]_vars

\* C7: when the module load started for /isolated/<rest> settles and no
\* further navigation has occurred, that module is rendered: its component
\* is the only mounted root, or its HTML document is the live document.
\* (A module that exports no component, and a component when the document
\* has no root node, are outside the claim.)
C7_IsolatedRenderProduced ==
  [][\A n \in DOMAIN loads :
       (/\ n = location.key
        /\ loads[n].state = "pending"
        /\ loads'[n].state # "pending"
        /\ loads'[n].value # DO_NOT_RENDER
        /\ (EndsWith(loads[n].loader.filePath, <<".", "h", "t", "m", "l">>)
              \/ body[docEl].hasRoot))
         => \/ \E r \in mounted' : r.id = n /\ r.ui # "shell" /\ mounted' = {r}
            \/ docEl' = n /\ n \in DOMAIN replays']_vars

\* C8: the promise returned by a loader of moduleWithDefaultExport never
\* rejects, whatever the file path.
C8_LoaderNeverRejects ==
  \A n \in DOMAIN loads : loads[n].state # "rejected"

\* does some manifest entry with a component extension lack an import entry?
RegistryEntryMissing ==
  \E i \in 1..Len(filesInfo) :
    /\ filesInfo[i].ext \in {".js", ".md", ".mdx", ".tsx", ".ts"}
    /\ filesInfo[i].filePath \notin imports

\* the file path that an isolated pathname maps to
MappedFile(pathname) == SRC \o SubSeq(pathname, Len(ISOLATED) + 1, Len(pathname))

\* C9: a missing import entry raises at once.  At startup this leaves the
\* application crashed before history.listen: no listener, no handling pass,
\* no render, no load, no timer.  In a handling pass the error is raised
\* exactly when the matched file has no import entry, and no import is
\* invoked for it.
C9_MissingImportIsFatal ==
  /\ pc # "init" => (pc = "crashed" <=> RegistryEntryMissing)
  /\ pc = "crashed" =>
       /\ ~listening
       /\ lastPass = NoPass
       /\ mounted = {} /\ unmount = 0 /\ alerts = 0
       /\ DOMAIN loads = {}
       /\ timers = << >>
       /\ navs = 0
       /\ docEl = OriginalDocument
       /\ body[OriginalDocument].classList = {}
  /\ pc = "running" =>
       /\ lastPass.threw <=>
            /\ IsIsolatedPath(location.pathname)
            /\ HasFileFor(location.pathname)
            /\ MappedFile(location.pathname) \notin imports
       /\ lastPass.threw => location.key \notin DOMAIN loads

\* startup stopped at the registry
C9_Witness == pc = "crashed" /\ RegistryEntryMissing

\* C10: at most one root created by render() is mounted, and it is the one
\* the stored unmount callback closes over.
C10_AtMostOneRoot ==
  /\ Cardinality(mounted) <= 1
  /\ \A r \in mounted : r.id = unmount

\* the shell is the one mounted root after an isolated component had been
\* mounted and an isolated document had replaced the original one
C10_Witness ==
  /\ \E r \in mounted : r.ui = "shell" /\ r.doc = OriginalDocument
  /\ \E n \in DOMAIN loads : loads[n].effect = "mounted"
  /\ \E n \in DOMAIN loads : loads[n].effect = "replaced"
  /\ docEl = OriginalDocument

\* a step in which the load that location n started settles and the callback
\* of line 186 goes on to call render(): the location is the recorded one and
\* the default export is a function other than DO_NOT_RENDER
RenderCalledBy(n) ==
  /\ n \in DOMAIN loads
  /\ loads[n].state = "pending"
  /\ loads'[n].state = "fulfilled"
  /\ loads'[n].value.type = "function"
  /\ loads'[n].value # DO_NOT_RENDER
  /\ location = previousLocation

\* a step in which render() runs while the live document has no element
\* with id "root": called by renderReact on the restored original document,
\* or by the callback of renderIsolated on the live document
RenderWithoutRoot ==
  \/ /\ PassRuns
     /\ ~IsIsolatedPath(location'.pathname)
     /\ previousIsIsolated # "false"
     /\ ~body[OriginalDocument].hasRoot
  \/ \E n \in DOMAIN loads : RenderCalledBy(n) /\ ~body[docEl].hasRoot

\* C11: when render() finds no element with id "root" it alerts and stops:
\* no root is created or mounted, the stored unmount callback and whatever is
\* mounted stay as they were, and nothing is raised.
C11_RenderWithoutRootAborts ==
  [][RenderWithoutRoot
       => /\ alerts' = alerts + 1
          /\ mounted' = mounted
          /\ unmount' = unmount
          /\ pc' = pc
          /\ ~lastPass'.threw]_vars

\* render() has alerted while the root mounted before is still there
C11_Witness ==
  /\ alerts > 0
  /\ mounted # {}
  /\ unmount # 0
  /\ ~body[docEl].hasRoot

\* C12: the loader of a path that does not end in html resolves to the
\* module's App export if there is one, otherwise its default export,
\* otherwise DO_NOT_RENDER; for a path that ends in html the import function
\* itself is the loader, so the load settles exactly as the import did.
C12_DefaultExportChosen ==
  \A n \in DOMAIN loads :
    LET l == loads[n]
    IN  IF EndsWith(l.loader.filePath, HTML)
        THEN /\ l.loader.kind = "importFn"
             /\ l.state = "fulfilled" =>
                  l.imported.fulfilled /\ l.value = l.imported.module.default
             /\ l.state = "rejected" => ~l.imported.fulfilled
        ELSE (l.state # "pending" /\ l.imported.fulfilled) =>
               /\ l.state = "fulfilled"
               /\ l.value.type = "function"
               /\ l.value.name =
                    IF l.imported.module.App # "undefined" THEN "App"
                    ELSE IF l.imported.module.default # "undefined" THEN "default"
                    ELSE "DO_NOT_RENDER"

\* a module with both exports was loaded for a JavaScript path and the
\* document string for an HTML path
C12_Witness ==
  /\ \E n \in DOMAIN loads :
       /\ ~EndsWith(loads[n].loader.filePath, HTML)
       /\ loads[n].imported.fulfilled
       /\ loads[n].imported.module.App # "undefined"
       /\ loads[n].imported.module.default # "undefined"
       /\ loads[n].value.name = "App"
  /\ \E n \in DOMAIN loads :
       /\ EndsWith(loads[n].loader.filePath, HTML)
       /\ loads[n].state = "fulfilled"
       /\ loads[n].value.type = "string"

\* C13: a handling pass invokes the Application Renderer whenever it is the
\* initial load or the path's state (Isolated or Shell) differs from the
\* recorded one, in either direction.
C13_RendersOnStateChange ==
  [][(PassRuns
        /\ \/ lastPass.nav = 0
           \/ /\ previousIsIsolated # "null"
              /\ (previousIsIsolated = "true") # IsIsolatedPath(location'.pathname))
       => lastPass'.renderer = "react"]_vars

\* C13, amended: a handling pass invokes the Application Renderer exactly
\* when its path is Shell and the recorded state is not Shell (nothing
\* recorded yet, or the last recorded pass was Isolated); the shell is then
\* rendered in the original document.  A pass for an Isolated path never
\* invokes it.
C13_RendersOnEntryToShell ==
  [][PassRuns
       => /\ lastPass'.renderer = "react"
               <=> (~IsIsolatedPath(location'.pathname) /\ previousIsIsolated # "false")
          /\ lastPass'.renderer = "react"
               => /\ docEl' = OriginalDocument
                  /\ body'[OriginalDocument].hasRoot
                       => [id |-> location'.key, ui |-> "shell",
                           doc |-> OriginalDocument] \in mounted']_vars

\* the shell was rendered by a pass that left the Isolated state
C13_Witness ==
  /\ lastPass.renderer = "react"
  /\ lastPass.nav > 1
  /\ \E n \in DOMAIN loads : n < lastPass.nav
  /\ \E r \in mounted : r.ui = "shell" /\ r.id = lastPass.nav

\* C14: a pass for a Shell path whose recorded predecessor was Shell too
\* invokes neither renderer: nothing is mounted, unmounted, loaded or
\* restored.  Every invocation of the Application Renderer is an entry into
\* the Shell state: the recorded state was not Shell before it and is Shell
\* after it, so it is invoked at most once per entry.
C14_NoRenderWithinShell ==
  [][PassRuns
       => /\ (~IsIsolatedPath(location'.pathname) /\ previousIsIsolated = "false")
               => /\ lastPass'.renderer = "none"
                  /\ mounted' = mounted
                  /\ unmount' = unmount
                  /\ alerts' = alerts
                  /\ docEl' = docEl
                  /\ loads' = loads
                  /\ previousIsIsolated' = "false"
          /\ lastPass'.renderer = "react"
               => /\ previousIsIsolated # "false"
                  /\ previousIsIsolated' = "false"]_vars

\* a pass from one Shell path to another left the shell root of the earlier
\* pass mounted
C14_Witness ==
  /\ lastPass.nav > 1
  /\ lastPass.renderer = "none"
  /\ ~lastPass.notFound
  /\ ~IsIsolatedPath(location.pathname)
  /\ previousLocation = location
  /\ \E r \in mounted : r.ui = "shell" /\ r.id < lastPass.nav

\* C15: the pass that follows a not-found pass and handles a Shell path
\* invokes the Application Renderer, whatever was recorded before the
\* unmatched navigation.
C15_ShellRenderedAfterNotFound ==
  [][(PassRuns /\ lastPass.notFound /\ ~IsIsolatedPath(location'.pathname))
       => lastPass'.renderer = "react"]_vars

\* the recorded flag is null or tells whether the recorded path is Isolated
PreviousPairAgrees ==
  \/ previousIsIsolated = "null"
  \/ (previousIsIsolated = "true") = IsIsolatedPath(previousLocation.pathname)

\* C16: previousLocation and previousIsIsolated are recorded together: the
\* flag is null or tells whether the recorded location's path is Isolated,
\* and no step, a not-found or raising pass included, changes one of them
\* without assigning the other in the same pass.
C16_PreviousPairRecordedTogether ==
  /\ []PreviousPairAgrees
  /\ [][/\ previousLocation' # previousLocation
             => /\ PassRuns
                /\ previousLocation' = location'
                /\ (previousIsIsolated' = "true") = IsIsolatedPath(location'.pathname)
        /\ previousIsIsolated' # previousIsIsolated
             => /\ PassRuns
                /\ previousLocation' = location'
        /\ (PassRuns /\ (lastPass'.notFound \/ lastPass'.threw))
             => /\ previousLocation' = previousLocation
                /\ previousIsIsolated' = previousIsIsolated]_vars

\* a pass raised after passes for an Isolated and then a Shell path had
\* recorded the pair
C16_Witness ==
  /\ lastPass.threw
  /\ previousIsIsolated = "false"
  /\ previousLocation.key = 2
  /\ location.key = 3

\* C17: the pass in which the Application Renderer renders the shell leaves
\* the original document element live, and the live document element is the
\* original one in every state in which the shell was rendered on entry to
\* the Shell state and the most recently handled navigation is a Shell
\* path.
C17_OriginalDocumentWhileShell ==
  /\ [][(PassRuns /\ lastPass'.renderer = "react") => docEl' = OriginalDocument]_vars
  /\ [](( /\ pc = "running"
          /\ previousIsIsolated = "false"
          /\ ~IsIsolatedPath(location.pathname)
          /\ lastPass.nav = location.key )
         => docEl = OriginalDocument)

Stalled(d) ==
  /\ d \in DOMAIN replays
  /\ replays[d].state \in {"awaitInline", "awaitAll"}

\* C19: a replay that waits for a load event stalls nothing but itself.
\* While one waits, the listener still takes navigation events, every event
\* delivered is handled by a pass, and the render of a later navigation
\* takes effect: the Application Renderer restores the original document
\* and mounts the shell, the Isolated Renderer starts its load, and when
\* that load settles its callback mounts the component or replaces the
\* document.
C19_StalledReplayBlocksNothing ==
  /\ []((pc = "running" /\ listening /\ navs < MaxNav
           /\ \E d \in DOMAIN replays : Stalled(d))
          => ENABLED (\E p \in Paths : Navigate(p)))
  /\ [][(location'.key # location.key /\ \E d \in DOMAIN replays : Stalled(d))
          => /\ lastPass'.nav = location'.key
             /\ (~IsIsolatedPath(location'.pathname) /\ previousIsIsolated # "false")
                  => /\ docEl' = OriginalDocument
                     /\ body'[OriginalDocument].hasRoot
                          => [id |-> location'.key, ui |-> "shell",
                              doc |-> OriginalDocument] \in mounted'
             /\ (IsIsolatedPath(location'.pathname)
                   /\ HasFileFor(location'.pathname)
                   /\ MappedFile(location'.pathname) \in imports)
                  => /\ location'.key \in DOMAIN loads'
                     /\ loads'[location'.key].state = "pending"]_vars
  /\ [][\A n \in DOMAIN loads :
          ( /\ \E d \in DOMAIN replays : d < n /\ Stalled(d)
            /\ loads[n].state = "pending"
            /\ loads'[n].state = "fulfilled"
            /\ location = previousLocation )
          => /\ (RenderCalledBy(n) /\ body[docEl].hasRoot)
                  => \E r \in mounted' : r.id = n /\ r.doc = docEl
             /\ loads'[n].value.type = "string"
                  => docEl' = n /\ n \in DOMAIN replays']_vars

\* while the replay of the first document still waits, the component of a
\* later navigation has been mounted
C19_Witness ==
  /\ Stalled(1)
  /\ location.key > 1
  /\ \E r \in mounted : r.id > 1 /\ r.ui # "shell"

\* C20: when the default export a load resolves to is DO_NOT_RENDER, the
\* Isolated Renderer does nothing: it unmounts nothing, mounts nothing,
\* alerts nothing, leaves the stored unmount callback as it was and does not
\* replace the document element or replay scripts.
C20_SentinelRendersNothing ==
  [][\A n \in DOMAIN loads :
       ( /\ loads[n].state = "pending"
         /\ loads'[n].state = "fulfilled"
         /\ loads'[n].value = DO_NOT_RENDER )
       => /\ mounted' = mounted
          /\ unmount' = unmount
          /\ alerts' = alerts
          /\ docEl' = docEl
          /\ body' = body
          /\ replays' = replays]_vars

\* a module with neither export was loaded for the current location while
\* the shell was mounted, and the shell is still mounted
C20_Witness ==
  \E n \in DOMAIN loads :
    /\ loads[n].value = DO_NOT_RENDER
    /\ loads[n].imported.fulfilled
    /\ loads[n].imported.module.App = "undefined"
    /\ loads[n].imported.module.default = "undefined"
    /\ loads[n].effect = "noop"
    /\ n = location.key
    /\ \E r \in mounted : r.ui = "shell" /\ r.id < n /\ r.id = unmount

====
